---- MODULE Spec2Model ----
(***************************************************************************)
(* Sensor data backend: the session buffer and CSV export of server.js,    *)
(* the Firestore batch writers of firebaseConfig.js and the Dublin Bikes   *)
(* poller of dublinBikesFetcher.js, as one state machine.                  *)
(*                                                                         *)
(* Node runs every handler and every continuation of an async function to  *)
(* its next await without interleaving, so one action is one such run: a   *)
(* request handler up to its first pending await, or the continuation that *)
(* a resolving network call (upstream fetch, Firestore commit) wakes up,   *)
(* up to the next pending await or to the response.                        *)
(***************************************************************************)
EXTENDS Integers, Sequences, FiniteSets, TLC

VARIABLES
    sensorData,           \* server.js: let sensorData = []
    sessionId,            \* server.js: let sessionId = null
    firebaseInitialized,  \* firebaseConfig.js: let firebaseInitialized
    keyFilePresent,       \* environment: firebase-admin-key.json can be loaded
    JCDECAUX_API_KEY,     \* environment: process.env.JCDECAUX_API_KEY (None or Some)
    fetchCount,           \* dublinBikesFetcher.js: let fetchCount = 0
    lastFetchTime,        \* dublinBikesFetcher.js: let lastFetchTime = null
    lastFetchStatus,      \* dublinBikesFetcher.js: let lastFetchStatus
    started,              \* server.js top level (lines 40-56) has run
    now,                  \* the clock read by Date.now() and new Date()
    tasks,                \* activations of the async functions, in start order
    commits,              \* the durable sink: per task, the WriteBatch.commit() calls it issued
    last,                 \* the response the latest step sent from a synchronous handler
    accepted,             \* history: the arrays POST /api/data accepted since the last start
    universe              \* which inputs the environment sends: "small", "bulk" or "poll"

vars == <<sensorData, sessionId, firebaseInitialized, keyFilePresent,
          JCDECAUX_API_KEY, fetchCount, lastFetchTime, lastFetchStatus,
          started, now, tasks, commits, last, accepted, universe>>

(***************************************************************************)
(* Bounds of the model.                                                    *)
(***************************************************************************)
MaxClock == 1        \* the clock advances at most this many milliseconds
MaxTasks == 2        \* async activations (POST /api/data, poll episodes) after startup
MaxFullChunks == 2   \* the longest bulk input holds this many full chunks and one record more

\* firebaseConfig.js: const BATCH_SIZE = 500
BATCH_SIZE == 500

(***************************************************************************)
(* JavaScript values.                                                      *)
(***************************************************************************)
\* null / undefined / an absent property, and a present value
None == <<>>
Some(x) == <<x>>

\* a result or response that does not exist yet
NoValue == [none |-> TRUE]

Min(a, b) == IF a < b THEN a ELSE b

\* Number.prototype.toString: the decimal digits of a non-negative integer
RECURSIVE NumToString(_)
NumToString(n) ==
    IF n < 10 THEN <<n>> ELSE Append(NumToString(n \div 10), n % 10)

\* new Date(t).toISOString(): a text that names the instant t
ToISOString(t) == [iso |-> t]

\* `x || ''` on an optional numeric field: undefined and 0 both give ''
OrEmpty(field) == IF field = None \/ field[1] = 0 THEN None ELSE field

\* Number.prototype.toFixed(3) of d / 1000 for an integer d:
\* sign, whole seconds and exactly three decimals
ToFixed3(d) ==
    LET a == IF d < 0 THEN 0 - d ELSE d
    IN  [negative |-> d < 0, whole |-> a \div 1000, decimals |-> a % 1000]

(***************************************************************************)
(* Sensor records and request bodies.                                      *)
(***************************************************************************)
\* a SensorRecord: timestamp in ms and the optional numeric fields, of which
\* latitude stands for all ten (they are rendered by the same expression)
SensorRecord(t, lat) == [timestamp |-> t, latitude |-> lat]

\* the records the clients send: two with the same timestamp, told apart by
\* their latitude, and an earlier one whose latitude is 0
PointA == SensorRecord(1000, Some(53))
PointB == SensorRecord(1000, None)
PointC == SensorRecord(500, Some(0))

\* the `data` property of a request body, by JavaScript type
Array(items) == [kind |-> "array", items |-> items]
NonArray(kind) == [kind |-> kind, items |-> <<>>]

\* kinds of `data` that are falsy (`!data`): the property missing, or null
FalsyKinds == {"absent", "null"}
\* a kind that is truthy and not an array
OtherKinds == {"object"}

\* `!data`
Falsy(data) == data.kind \in FalsyKinds

\* a check that takes any object for an array
IsArrayLoose(data) == data.kind \in {"array", "object"}

\* Array.isArray(data)
IsArray(data) == data.kind = "array"

InvalidBodies == {NonArray(k) : k \in FalsyKinds \cup OtherKinds}
\* arrays a client posts: empty, one record, and two with the later one first
SmallBodies == {Array(<<>>), Array(<<PointB>>), Array(<<PointA, PointC>>)}

\* a bulk body of n records with ascending timestamps
BulkRecords(n) == [k \in 1..n |-> SensorRecord(k, None)]
\* no record, one full chunk, one record more, and the longest input
BulkLens == {0, BATCH_SIZE, BATCH_SIZE + 1, MaxFullChunks * BATCH_SIZE + 1}
BulkInputs == {BulkRecords(n) : n \in BulkLens}

Bodies == SmallBodies \cup InvalidBodies

(***************************************************************************)
(* CSV export (GET /api/data/download).                                    *)
(***************************************************************************)
headers ==
    << "timestamp", "datetime", "seconds_elapsed", "latitude", "longitude",
       "altitude", "speed", "accuracy", "heading", "accel_x", "accel_y",
       "accel_z", "accel_magnitude" >>

\* the comparator (a, b) => a.timestamp - b.timestamp
Compare(a, b) == a.timestamp - b.timestamp

\* an insertion that also moves x before the elements equal to it
RECURSIVE InsertSortedUnstable(_, _)
InsertSortedUnstable(s, x) ==
    IF s = <<>> THEN <<x>>
    ELSE IF Compare(x, s[Len(s)]) <= 0
         THEN Append(InsertSortedUnstable(SubSeq(s, 1, Len(s) - 1), x), s[Len(s)])
         ELSE Append(s, x)

\* one step of a stable sort: x goes before the first element that the
\* comparator puts strictly after it
RECURSIVE InsertSorted(_, _)
InsertSorted(s, x) ==
    IF s = <<>> THEN <<x>>
    ELSE IF Compare(x, s[Len(s)]) < 0
         THEN Append(InsertSorted(SubSeq(s, 1, Len(s) - 1), x), s[Len(s)])
         ELSE Append(s, x)

\* [...sensorData].sort(comparator): Array.prototype.sort is stable
RECURSIVE Sorted(_)
Sorted(s) ==
    IF s = <<>> THEN <<>>
    ELSE InsertSorted(Sorted(SubSeq(s, 1, Len(s) - 1)), s[Len(s)])

\* one CSV row: 13 cells
Row(point, startTime) ==
    << point.timestamp, ToISOString(point.timestamp),
       ToFixed3(point.timestamp - startTime), OrEmpty(point.latitude),
       None, None, None, None, None, None, None, None, None >>

\* an export whose loop starts at the second point
CsvSkipsFirst(data) ==
    LET sortedData == Sorted(data)
        startTime == sortedData[1].timestamp
    IN  <<headers>> \o [k \in 1..(Len(sortedData) - 1) |->
                           Row(sortedData[k + 1], startTime)]

\* the CSV text as its lines: the header line, then one line per point
Csv(data) ==
    LET sortedData == Sorted(data)
        startTime == sortedData[1].timestamp
    IN  <<headers>> \o [k \in 1..Len(sortedData) |-> Row(sortedData[k], startTime)]

(***************************************************************************)
(* The durable sink (Firestore) and the batch writers.                     *)
(***************************************************************************)
\* { ...dataPoint, created_at: FieldValue.serverTimestamp() }
SensorDoc(dataPoint) == [created_at |-> "serverTimestamp"] @@ dataPoint

\* { ...station, fetched_at: Timestamp.fromDate(timestamp), created_at: ... }
StationDoc(station, timestamp) ==
    [fetched_at |-> timestamp, created_at |-> "serverTimestamp"] @@ station

\* one WriteBatch.commit() call: the collection, its writes, and whether it
\* is pending, committed or rejected
Commit(collection, docs) ==
    [collection |-> collection, docs |-> docs, status |-> "pending"]

\* the settling of the commit a task awaits, which is the last it issued
Settle(issued, ok) ==
    [issued EXCEPT ![Len(issued)].status = IF ok THEN "committed" ELSE "rejected"]

\* how many commits have been issued so far
RECURSIVE CommitCount(_)
CommitCount(cs) ==
    IF cs = <<>> THEN 0 ELSE CommitCount(SubSeq(cs, 1, Len(cs) - 1)) + Len(cs[Len(cs)])

\* getFirestore(): initializeFirebase() when needed, which throws when the
\* service account key cannot be loaded
GetFirestoreOk == firebaseInitialized \/ keyFilePresent

\* a slice that runs one element into the next chunk
SliceOverlaps(dataPoints, i) ==
    SubSeq(dataPoints, i + 1, Min(i + BATCH_SIZE + 1, Len(dataPoints)))

\* dataPoints.slice(i, i + BATCH_SIZE)
Slice(dataPoints, i) == SubSeq(dataPoints, i + 1, Min(i + BATCH_SIZE, Len(dataPoints)))

\* return values of addSensorDataBatch
BatchSuccess(dataPoints, results) ==
    [success |-> TRUE, totalAdded |-> Len(dataPoints), batches |-> results]
BatchFailure(message) == [success |-> FALSE, error |-> message]

\* a loop that hands the sink the next chunk without awaiting the current one
BatchStepPipelined(dataPoints, i, results) ==
    IF i < Len(dataPoints)
    THEN LET Docs(chunk) == [k \in 1..Len(chunk) |-> SensorDoc(chunk[k])]
             first == <<Commit("sensor_data", Docs(Slice(dataPoints, i)))>>
             second == IF i + BATCH_SIZE < Len(dataPoints)
                       THEN <<Commit("sensor_data",
                                     Docs(Slice(dataPoints, i + BATCH_SIZE)))>>
                       ELSE <<>>
         IN  [pc |-> "commit", result |-> NoValue, issued |-> first \o second]
    ELSE [pc |-> "done", result |-> BatchSuccess(dataPoints, results), issued |-> <<>>]

\* addSensorDataBatch at the head of its loop, with `results` chunks done:
\* either the next chunk is built and its commit awaited, or the loop is over
BatchStep(dataPoints, i, results) ==
    IF i < Len(dataPoints)
    THEN LET chunk == Slice(dataPoints, i)
         IN  [pc |-> "commit", result |-> NoValue,
              issued |-> <<Commit("sensor_data",
                                  [k \in 1..Len(chunk) |-> SensorDoc(chunk[k])])>>]
    ELSE [pc |-> "done", result |-> BatchSuccess(dataPoints, results), issued |-> <<>>]

\* addSensorDataBatch from its call to its first pending await or its return
BatchCall(dataPoints) ==
    IF GetFirestoreOk
    THEN BatchStep(dataPoints, 0, 0)
    ELSE [pc |-> "done", result |-> BatchFailure("initializeFirebase failed"),
          issued |-> <<>>]

(***************************************************************************)
(* HTTP responses of server.js.                                            *)
(***************************************************************************)
\* what a synchronous handler saw when it ran (history, for the checks)
Before == [sensorData |-> sensorData, sessionId |-> sessionId,
           commits |-> CommitCount(commits)]

Response(op, status, body) ==
    [op |-> op, status |-> status, body |-> body, before |-> Before]

\* a response that reports the request as failed
DataResponseFails(data, buffer) ==
    [status |-> 500,
     body |-> [success |-> FALSE, totalPoints |-> Len(buffer),
               received |-> Len(data), storedToCloud |-> FALSE]]

\* a response that counts the records of its own request only
DataResponseCountsOwn(data, buffer) ==
    [status |-> 200,
     body |-> [success |-> TRUE, totalPoints |-> Len(data),
               received |-> Len(data), storedToCloud |-> TRUE]]

\* res.json of POST /api/data, with the buffer as it is when the handler resumes
DataResponse(data, buffer) ==
    [status |-> 200,
     body |-> [success |-> TRUE, totalPoints |-> Len(buffer),
               received |-> Len(data), storedToCloud |-> TRUE]]

(***************************************************************************)
(* Initial state: the module-level declarations.                           *)
(***************************************************************************)
InitIn(u) ==
    /\ sensorData = <<>>
    /\ sessionId = None
    /\ firebaseInitialized = FALSE
    /\ keyFilePresent \in BOOLEAN
    /\ JCDECAUX_API_KEY \in {None, Some("key")}
    /\ fetchCount = 0
    /\ lastFetchTime = None
    /\ lastFetchStatus = [kind |-> "Not started", detail |-> "", stations |-> 0]
    /\ started = FALSE
    /\ now = 0
    /\ tasks = <<>>
    /\ commits = <<>>
    /\ last = NoValue
    /\ accepted = <<>>
    /\ universe = u

Init == InitIn("small")

\* the clock advances
Tick ==
    /\ now < MaxClock
    /\ now' = now + 1
    /\ last' = NoValue
    /\ UNCHANGED <<sensorData, sessionId, firebaseInitialized, keyFilePresent,
                   JCDECAUX_API_KEY, fetchCount, lastFetchTime, lastFetchStatus,
                   started, tasks, commits, accepted, universe>>

(***************************************************************************)
(* Session handlers.                                                       *)
(***************************************************************************)
\* a start that takes a new id but keeps the old buffer
StartSessionKeepsBuffer ==
    /\ started
    /\ sessionId' = NumToString(now)
    /\ accepted' = <<>>
    /\ last' = Response("start", 200,
                        [success |-> TRUE, sessionId |-> NumToString(now)])
    /\ UNCHANGED <<sensorData, firebaseInitialized, keyFilePresent,
                   JCDECAUX_API_KEY, fetchCount, lastFetchTime, lastFetchStatus,
                   started, now, tasks, commits, universe>>

\* POST /api/session/start
StartSession ==
    /\ started
    /\ sessionId' = NumToString(now)
    /\ sensorData' = <<>>
    /\ accepted' = <<>>
    /\ last' = Response("start", 200,
                        [success |-> TRUE, sessionId |-> NumToString(now)])
    /\ UNCHANGED <<firebaseInitialized, keyFilePresent, JCDECAUX_API_KEY,
                   fetchCount, lastFetchTime, lastFetchStatus, started, now,
                   tasks, commits, universe>>

\* a push that replaces the buffer instead of extending it
PushReplaces(buffer, items) == items

\* sensorData.push(...data)
Push(buffer, items) == buffer \o items

\* POST /api/data with a body whose `data` fails the check: 400
RejectData(data) ==
    /\ last' = Response("data", 400,
                        [success |-> FALSE, error |-> "Invalid data format"])
    /\ UNCHANGED <<sensorData, sessionId, firebaseInitialized, keyFilePresent,
                   JCDECAUX_API_KEY, fetchCount, lastFetchTime, lastFetchStatus,
                   started, now, tasks, commits, accepted, universe>>

\* POST /api/data with an array: push, then addSensorDataBatch(data) up to
\* its first pending commit; when it returns at once, the response follows
AcceptData(data) ==
    LET buffer == Push(sensorData, data.items)
        call == BatchCall(data.items)
    IN  /\ Len(tasks) <= MaxTasks
        /\ sensorData' = buffer
        /\ accepted' = Append(accepted, data.items)
        /\ firebaseInitialized' = GetFirestoreOk
        /\ commits' = Append(commits, call.issued)
        /\ tasks' = Append(tasks,
              [kind |-> "data", trigger |-> "http", pc |-> call.pc,
               data |-> data.items, i |-> 0, results |-> 0,
               result |-> call.result,
               resp |-> IF call.pc = "done"
                        THEN DataResponse(data.items, buffer) ELSE NoValue])
        /\ last' = NoValue
        /\ UNCHANGED <<sessionId, keyFilePresent, JCDECAUX_API_KEY, fetchCount,
                       lastFetchTime, lastFetchStatus, started, now, universe>>

\* addSensorDataBatch(dataPoints) called directly (it is exported), up to its
\* first pending commit or its return
CallBatch(dataPoints) ==
    LET call == BatchCall(dataPoints)
    IN  /\ started
        /\ Len(tasks) <= MaxTasks
        /\ firebaseInitialized' = GetFirestoreOk
        /\ commits' = Append(commits, call.issued)
        /\ tasks' = Append(tasks,
              [kind |-> "batch", trigger |-> "call", pc |-> call.pc,
               data |-> dataPoints, i |-> 0, results |-> 0,
               result |-> call.result, resp |-> NoValue])
        /\ last' = NoValue
        /\ UNCHANGED <<sensorData, sessionId, keyFilePresent, JCDECAUX_API_KEY,
                       fetchCount, lastFetchTime, lastFetchStatus, started, now,
                       accepted, universe>>

\* POST /api/data
PostData(data) ==
    /\ started
    /\ IF Falsy(data) \/ ~IsArray(data) THEN RejectData(data) ELSE AcceptData(data)

\* a writer that goes on with the next chunk after a rejected commit
BatchResumeIgnoresRejection(task, ok) ==
    BatchStep(task.data, task.i + BATCH_SIZE, task.results + 1)

\* addSensorDataBatch when the commit it awaits settles: it pushes a result
\* and goes round the loop, or falls into its catch block when the commit rejects
BatchResume(task, ok) ==
    IF ok
    THEN BatchStep(task.data, task.i + BATCH_SIZE, task.results + 1)
    ELSE [pc |-> "done", result |-> BatchFailure("commit rejected"), issued |-> <<>>]

\* a handler that pushes the records when it resumes after the write
ResolveSensorCommitPushes(t, ok) ==
    LET task == tasks[t]
        step == BatchResume(task, ok)
        buffer == IF step.pc = "done" /\ task.kind = "data"
                  THEN Push(sensorData, task.data) ELSE sensorData
    IN  /\ task.kind \in {"data", "batch"}
        /\ task.pc = "commit"
        /\ commits' = [commits EXCEPT ![t] = Settle(commits[t], ok) \o step.issued]
        /\ sensorData' = buffer
        /\ tasks' = [tasks EXCEPT ![t] =
              [task EXCEPT !.pc = step.pc,
                           !.i = IF ok THEN task.i + BATCH_SIZE ELSE task.i,
                           !.results = IF ok THEN task.results + 1 ELSE task.results,
                           !.result = step.result,
                           !.resp = IF step.pc = "done" /\ task.kind = "data"
                                    THEN DataResponse(task.data, buffer)
                                    ELSE NoValue]]
        /\ last' = NoValue
        /\ UNCHANGED <<sessionId, firebaseInitialized, keyFilePresent,
                       JCDECAUX_API_KEY, fetchCount, lastFetchTime,
                       lastFetchStatus, started, now, accepted, universe>>

\* a sensor_data commit settles; when addSensorDataBatch returns, the
\* POST /api/data handler that awaits it sends its response
ResolveSensorCommit(t, ok) ==
    LET task == tasks[t]
        step == BatchResume(task, ok)
    IN  /\ task.kind \in {"data", "batch"}
        /\ task.pc = "commit"
        /\ commits' = [commits EXCEPT ![t] = Settle(commits[t], ok) \o step.issued]
        /\ tasks' = [tasks EXCEPT ![t] =
              [task EXCEPT !.pc = step.pc,
                           !.i = IF ok THEN task.i + BATCH_SIZE ELSE task.i,
                           !.results = IF ok THEN task.results + 1 ELSE task.results,
                           !.result = step.result,
                           !.resp = IF step.pc = "done" /\ task.kind = "data"
                                    THEN DataResponse(task.data, sensorData)
                                    ELSE NoValue]]
        /\ last' = NoValue
        /\ UNCHANGED <<sensorData, sessionId, firebaseInitialized, keyFilePresent,
                       JCDECAUX_API_KEY, fetchCount, lastFetchTime,
                       lastFetchStatus, started, now, accepted, universe>>

\* GET /api/data/count
Count ==
    /\ started
    /\ last' = Response("count", 200,
                        [count |-> Len(sensorData), sessionId |-> sessionId])
    /\ UNCHANGED <<sensorData, sessionId, firebaseInitialized, keyFilePresent,
                   JCDECAUX_API_KEY, fetchCount, lastFetchTime, lastFetchStatus,
                   started, now, tasks, commits, accepted, universe>>

\* an export that sorts the buffer itself instead of a copy
DownloadSortsInPlace ==
    /\ started
    /\ sensorData' = Sorted(sensorData)
    /\ last' = IF Len(sensorData) = 0
               THEN Response("download", 404,
                             [success |-> FALSE, error |-> "No data available"])
               ELSE Response("download", 200,
                             [csv |-> Csv(sensorData), filename |-> sessionId])
    /\ UNCHANGED <<sessionId, firebaseInitialized, keyFilePresent,
                   JCDECAUX_API_KEY, fetchCount, lastFetchTime, lastFetchStatus,
                   started, now, tasks, commits, accepted, universe>>

\* GET /api/data/download
Download ==
    /\ started
    /\ last' = IF Len(sensorData) = 0
               THEN Response("download", 404,
                             [success |-> FALSE, error |-> "No data available"])
               ELSE Response("download", 200,
                             [csv |-> Csv(sensorData), filename |-> sessionId])
    /\ UNCHANGED <<sensorData, sessionId, firebaseInitialized, keyFilePresent,
                   JCDECAUX_API_KEY, fetchCount, lastFetchTime, lastFetchStatus,
                   started, now, tasks, commits, accepted, universe>>

\* a stop that clears the buffer and the session id
StopSessionClears ==
    /\ started
    /\ sensorData' = <<>>
    /\ sessionId' = None
    /\ last' = Response("stop", 200,
                        [success |-> TRUE, dataPoints |-> Len(sensorData),
                         sessionId |-> sessionId])
    /\ UNCHANGED <<firebaseInitialized, keyFilePresent, JCDECAUX_API_KEY,
                   fetchCount, lastFetchTime, lastFetchStatus, started, now,
                   tasks, commits, accepted, universe>>

\* POST /api/session/stop
StopSession ==
    /\ started
    /\ last' = Response("stop", 200,
                        [success |-> TRUE, dataPoints |-> Len(sensorData),
                         sessionId |-> sessionId])
    /\ UNCHANGED <<sensorData, sessionId, firebaseInitialized, keyFilePresent,
                   JCDECAUX_API_KEY, fetchCount, lastFetchTime, lastFetchStatus,
                   started, now, tasks, commits, accepted, universe>>

(***************************************************************************)
(* The Dublin Bikes poller (dublinBikesFetcher.js).                        *)
(***************************************************************************)
\* station objects of the upstream API; optional properties are None or Some
UpstreamStation(number, position, full) ==
    [number |-> number, name |-> "name", address |-> "address",
     position |-> position,
     banking |-> IF full THEN Some(TRUE) ELSE None,
     bonus |-> IF full THEN Some(FALSE) ELSE None,
     bike_stands |-> IF full THEN Some(40) ELSE None,
     available_bike_stands |-> IF full THEN Some(0) ELSE None,
     available_bikes |-> IF full THEN Some(7) ELSE None,
     status |-> IF full THEN Some("OPEN") ELSE None,
     last_update |-> IF full THEN Some(1000) ELSE None]

Position == Some([lat |-> 53, lng |-> -6])

\* `x || false`, `x || 0`, `x || 'UNKNOWN'`
OrFalse(field) == IF field = None THEN FALSE ELSE field[1]
OrZero(field) == IF field = None THEN 0 ELSE field[1]
OrUnknown(field) == IF field = None \/ field[1] = "" THEN "UNKNOWN" ELSE field[1]

\* the arrow function of stations.map(...)
TransformStation(station) ==
    [station_number |-> station.number,
     station_name |-> station.name,
     address |-> station.address,
     position |-> [lat |-> station.position[1].lat, lng |-> station.position[1].lng],
     banking |-> OrFalse(station.banking),
     bonus |-> OrFalse(station.bonus),
     bike_stands |-> OrZero(station.bike_stands),
     available_bike_stands |-> OrZero(station.available_bike_stands),
     available_bikes |-> OrZero(station.available_bikes),
     status |-> OrUnknown(station.status),
     last_update |-> IF station.last_update = None \/ station.last_update[1] = 0
                     THEN None ELSE station.last_update]

\* station.position.lat throws a TypeError when position is undefined
TransformThrows(stations) == \E k \in 1..Len(stations) : stations[k].position = None

\* what the upstream API can answer to one request
SmallStations ==
    { <<>>,
      <<UpstreamStation(1, Position, TRUE)>>,
      <<UpstreamStation(1, Position, TRUE), UpstreamStation(2, Position, FALSE)>>,
      <<UpstreamStation(1, Position, TRUE), UpstreamStation(2, None, FALSE)>> }
\* station lists of one full Firestore batch, and of one station more
BulkStations ==
    { [k \in 1..n |-> UpstreamStation(k, Position, FALSE)] :
        n \in {BATCH_SIZE, BATCH_SIZE + 1} }
\* for the poller alone: one station, and two of which one has no position
PollStations ==
    { <<UpstreamStation(1, Position, TRUE)>>,
      <<UpstreamStation(1, Position, TRUE), UpstreamStation(2, None, FALSE)>> }
Replies ==
    { [kind |-> "network", status |-> 0, body |-> <<>>],      \* fetch rejects
      [kind |-> "status", status |-> 503, body |-> <<>>] }    \* !response.ok
    \cup (IF universe = "poll" THEN {} ELSE
          { [kind |-> "badJson", status |-> 200, body |-> <<>>],   \* response.json() rejects
            [kind |-> "object", status |-> 200, body |-> <<>>] })  \* JSON, but not an array
    \cup { [kind |-> "array", status |-> 200, body |-> b] :
             b \in IF universe = "bulk" THEN BulkStations
                   ELSE IF universe = "poll" THEN PollStations ELSE SmallStations }

\* lastFetchStatus texts
StatusSuccess(n) == [kind |-> "Success", detail |-> "stations", stations |-> n]
StatusError(message) == [kind |-> "Error", detail |-> message, stations |-> 0]

\* the response of POST /api/dublin-bikes/fetch to the result of its episode
FetchResponse(trigger, result) ==
    IF trigger # "manual" THEN NoValue
    ELSE IF result.success
         THEN [status |-> 200,
               body |-> [success |-> TRUE, stationsCount |-> result.stationsCount]]
         ELSE [status |-> 500, body |-> [success |-> FALSE, error |-> result.error]]

\* a task of fetchDublinBikes that has returned `result`
Finished(task, result) ==
    [task EXCEPT !.pc = "done", !.result = result,
                 !.resp = FetchResponse(task.trigger, result)]

\* an episode that is skipped while an earlier one is in progress
EpisodeSkipsWhenBusy(trigger) ==
    LET task == [kind |-> "poll", trigger |-> trigger, pc |-> "fetch",
                 data |-> <<>>, i |-> 0, results |-> 0, result |-> NoValue,
                 resp |-> NoValue]
    IN  /\ Len(tasks) <= MaxTasks
        /\ \A t \in DOMAIN tasks : tasks[t].pc = "done"
        /\ commits' = Append(commits, <<>>)
        /\ IF JCDECAUX_API_KEY = None
           THEN /\ lastFetchStatus' = StatusError("Missing API key")
                /\ tasks' = Append(tasks,
                      Finished(task, [success |-> FALSE, error |-> "Missing API key"]))
           ELSE /\ lastFetchStatus' = lastFetchStatus
                /\ tasks' = Append(tasks, task)

\* an episode that checks the API key at startup only
EpisodeChecksOnce(trigger) ==
    LET task == [kind |-> "poll", trigger |-> trigger, pc |-> "fetch",
                 data |-> <<>>, i |-> 0, results |-> 0, result |-> NoValue,
                 resp |-> NoValue]
    IN  /\ Len(tasks) <= MaxTasks
        /\ commits' = Append(commits, <<>>)
        /\ IF JCDECAUX_API_KEY = None /\ trigger = "initial"
           THEN /\ lastFetchStatus' = StatusError("Missing API key")
                /\ tasks' = Append(tasks,
                      Finished(task, [success |-> FALSE, error |-> "Missing API key"]))
           ELSE /\ lastFetchStatus' = lastFetchStatus
                /\ tasks' = Append(tasks, task)

\* fetchDublinBikes from its call to its first await: the API key check
\* returns at once, otherwise fetch(url) is pending
Episode(trigger) ==
    LET task == [kind |-> "poll", trigger |-> trigger, pc |-> "fetch",
                 data |-> <<>>, i |-> 0, results |-> 0, result |-> NoValue,
                 resp |-> NoValue]
    IN  /\ Len(tasks) <= MaxTasks
        /\ commits' = Append(commits, <<>>)
        /\ IF JCDECAUX_API_KEY = None
           THEN /\ lastFetchStatus' = StatusError("Missing API key")
                /\ tasks' = Append(tasks,
                      Finished(task, [success |-> FALSE, error |-> "Missing API key"]))
           ELSE /\ lastFetchStatus' = lastFetchStatus
                /\ tasks' = Append(tasks, task)

\* a catch block that counts the failed episode as a fetch
CaughtCounts(t, message) ==
    /\ lastFetchStatus' = StatusError(message)
    /\ fetchCount' = fetchCount + 1
    /\ tasks' = [tasks EXCEPT ![t] =
                    Finished(tasks[t], [success |-> FALSE, error |-> message])]
    /\ UNCHANGED <<lastFetchTime, commits, firebaseInitialized>>

\* a catch block that stamps the time of the failed episode
CaughtStampsTime(t, message) ==
    /\ lastFetchStatus' = StatusError(message)
    /\ lastFetchTime' = Some(ToISOString(now))
    /\ tasks' = [tasks EXCEPT ![t] =
                    Finished(tasks[t], [success |-> FALSE, error |-> message])]
    /\ UNCHANGED <<fetchCount, commits, firebaseInitialized>>

\* the catch block of fetchDublinBikes
Caught(t, message) ==
    /\ lastFetchStatus' = StatusError(message)
    /\ tasks' = [tasks EXCEPT ![t] =
                    Finished(tasks[t], [success |-> FALSE, error |-> message])]
    /\ UNCHANGED <<fetchCount, lastFetchTime, commits, firebaseInitialized>>

\* server.js top level: initializeFirebase() and startDublinBikesFetcher(),
\* which calls fetchDublinBikes() at once and schedules the cron task
Startup ==
    /\ ~started
    /\ started' = TRUE
    /\ firebaseInitialized' = keyFilePresent
    /\ Episode("initial")
    /\ last' = NoValue
    /\ UNCHANGED <<sensorData, sessionId, keyFilePresent, JCDECAUX_API_KEY,
                   fetchCount, lastFetchTime, now, accepted, universe>>

\* the cron callback ('*/5 * * * *'): await fetchDublinBikes()
CronTick ==
    /\ started
    /\ Episode("cron")
    /\ last' = NoValue
    /\ UNCHANGED <<sensorData, sessionId, firebaseInitialized, keyFilePresent,
                   JCDECAUX_API_KEY, fetchCount, lastFetchTime, started, now,
                   accepted, universe>>

\* POST /api/dublin-bikes/fetch: await triggerManualFetch()
ManualFetch ==
    /\ started
    /\ Episode("manual")
    /\ last' = NoValue
    /\ UNCHANGED <<sensorData, sessionId, firebaseInitialized, keyFilePresent,
                   JCDECAUX_API_KEY, fetchCount, lastFetchTime, started, now,
                   accepted, universe>>

\* a continuation that does not test response.ok
ResolveFetchIgnoresStatus(t, reply) ==
    /\ tasks[t].kind = "poll"
    /\ tasks[t].pc = "fetch"
    /\ IF reply.kind = "network" THEN Caught(t, "fetch failed")
       ELSE /\ tasks' = [tasks EXCEPT ![t].pc = "json", ![t].result = reply]
            /\ UNCHANGED <<lastFetchStatus, fetchCount, lastFetchTime, commits,
                           firebaseInitialized>>
    /\ last' = NoValue
    /\ UNCHANGED <<sensorData, sessionId, keyFilePresent, JCDECAUX_API_KEY,
                   started, now, accepted, universe>>

\* `await fetch(url)` settles with `reply`: a rejection or a non-2xx status
\* ends the episode in the catch block, otherwise response.json() is pending
ResolveFetch(t, reply) ==
    /\ tasks[t].kind = "poll"
    /\ tasks[t].pc = "fetch"
    /\ IF reply.kind = "network" THEN Caught(t, "fetch failed")
       ELSE IF reply.kind = "status" THEN Caught(t, "API returned status")
       ELSE /\ tasks' = [tasks EXCEPT ![t].pc = "json", ![t].result = reply]
            /\ UNCHANGED <<lastFetchStatus, fetchCount, lastFetchTime, commits,
                           firebaseInitialized>>
    /\ last' = NoValue
    /\ UNCHANGED <<sensorData, sessionId, keyFilePresent, JCDECAUX_API_KEY,
                   started, now, accepted, universe>>

\* `await response.json()` settles: the body is transformed and handed to
\* addDublinBikesData, which puts every station in ONE batch and commits it
ResolveJson(t) ==
    LET reply == tasks[t].result
        transformed == [k \in 1..Len(reply.body) |-> TransformStation(reply.body[k])]
        timestamp == ToISOString(now)
    IN  /\ tasks[t].kind = "poll"
        /\ tasks[t].pc = "json"
        /\ IF reply.kind = "badJson" THEN Caught(t, "invalid json")
           ELSE IF reply.kind = "object" THEN Caught(t, "stations.map is not a function")
           ELSE IF TransformThrows(reply.body) THEN Caught(t, "cannot read position")
           ELSE IF ~GetFirestoreOk
           THEN /\ lastFetchStatus' = StatusError("initializeFirebase failed")
                /\ tasks' = [tasks EXCEPT ![t] =
                      Finished([tasks[t] EXCEPT !.data = transformed],
                               [success |-> FALSE, error |-> "initializeFirebase failed"])]
                /\ UNCHANGED <<fetchCount, lastFetchTime, commits, firebaseInitialized>>
           ELSE /\ tasks' = [tasks EXCEPT ![t].pc = "commit", ![t].data = transformed,
                                          ![t].result = NoValue]
                /\ commits' = [commits EXCEPT ![t] =
                      <<Commit("dublin_bikes",
                               [k \in 1..Len(transformed) |->
                                   StationDoc(transformed[k], timestamp)])>>]
                /\ firebaseInitialized' = TRUE
                /\ UNCHANGED <<lastFetchStatus, fetchCount, lastFetchTime>>
        /\ last' = NoValue
        /\ UNCHANGED <<sensorData, sessionId, keyFilePresent, JCDECAUX_API_KEY,
                       started, now, accepted, universe>>

\* the dublin_bikes commit settles: addDublinBikesData returns success or,
\* from its catch block, failure; fetchDublinBikes updates the statistics
ResolveBikesCommit(t, ok) ==
    LET task == tasks[t]
    IN  /\ task.kind = "poll"
        /\ task.pc = "commit"
        /\ commits' = [commits EXCEPT ![t] = Settle(commits[t], ok)]
        /\ IF ok
           THEN /\ fetchCount' = fetchCount + 1
                /\ lastFetchTime' = Some(ToISOString(now))
                /\ lastFetchStatus' = StatusSuccess(Len(task.data))
                /\ tasks' = [tasks EXCEPT ![t] =
                      Finished(task, [success |-> TRUE,
                                      stationsCount |-> Len(task.data),
                                      fetchCount |-> fetchCount + 1])]
           ELSE /\ lastFetchStatus' = StatusError("commit rejected")
                /\ tasks' = [tasks EXCEPT ![t] =
                      Finished(task, [success |-> FALSE, error |-> "commit rejected"])]
                /\ UNCHANGED <<fetchCount, lastFetchTime>>
        /\ last' = NoValue
        /\ UNCHANGED <<sensorData, sessionId, firebaseInitialized, keyFilePresent,
                       JCDECAUX_API_KEY, started, now, accepted, universe>>

\* a statistics read that waits until no episode is suspended
GetStatsWaitsForEpisode ==
    /\ started
    /\ \A t \in DOMAIN tasks : tasks[t].kind = "poll" => tasks[t].pc = "done"
    /\ last' = Response("stats", 200,
                        [fetchCount |-> fetchCount, lastFetchTime |-> lastFetchTime,
                         lastFetchStatus |-> lastFetchStatus])
    /\ UNCHANGED <<sensorData, sessionId, firebaseInitialized, keyFilePresent,
                   JCDECAUX_API_KEY, fetchCount, lastFetchTime, lastFetchStatus,
                   started, now, tasks, commits, accepted, universe>>

\* GET /api/dublin-bikes/stats
GetStats ==
    /\ started
    /\ last' = Response("stats", 200,
                        [fetchCount |-> fetchCount, lastFetchTime |-> lastFetchTime,
                         lastFetchStatus |-> lastFetchStatus])
    /\ UNCHANGED <<sensorData, sessionId, firebaseInitialized, keyFilePresent,
                   JCDECAUX_API_KEY, fetchCount, lastFetchTime, lastFetchStatus,
                   started, now, tasks, commits, accepted, universe>>

(***************************************************************************)
(* The recency queries (GET /api/firestore/sensor-data and /dublin-bikes). *)
(***************************************************************************)
\* what parseInt returns: NaN for a text that does not start with a number,
\* or a number
NaN == <<>>
Number(n) == <<n>>

DecimalDigits == <<"0", "1", "2", "3", "4", "5", "6", "7", "8", "9">>
IsDigit(c) == \E d \in 1..10 : DecimalDigits[d] = c
DigitValue(c) == (CHOOSE d \in 1..10 : DecimalDigits[d] = c) - 1

\* StrWhiteSpaceChar* at the start of the text is skipped
RECURSIVE TrimStart(_)
TrimStart(s) ==
    IF s # <<>> /\ Head(s) = " " THEN TrimStart(Tail(s)) ELSE s

\* the longest prefix of decimal digits, as a number; NaN when it is empty
RECURSIVE ParseDigits(_, _, _)
ParseDigits(s, value, seen) ==
    IF s # <<>> /\ IsDigit(Head(s))
    THEN ParseDigits(Tail(s), value * 10 + DigitValue(Head(s)), TRUE)
    ELSE IF seen THEN Number(value) ELSE NaN

\* parseInt(text) without a radix, for texts that have no 0x prefix: white
\* space, an optional sign and the leading decimal digits; the rest is ignored
ParseIntText(text) ==
    LET s == TrimStart(text)
        signed == s # <<>> /\ Head(s) \in {"-", "+"}
        digits == ParseDigits(IF signed THEN Tail(s) ELSE s, 0, FALSE)
    IN  IF digits = NaN THEN NaN
        ELSE IF signed /\ Head(s) = "-" THEN Number(0 - digits[1]) ELSE digits

\* parseInt(req.query.limit): an absent parameter is undefined, which
\* parseInt reads as the text "undefined"
ParseInt(param) == IF param = None THEN NaN ELSE ParseIntText(param[1])

\* `n || 100`: NaN and 0 are falsy
OrDefault(n, default) == IF n = NaN \/ n[1] = 0 THEN default ELSE n[1]

\* const limit = parseInt(req.query.limit) || 100
LimitOf(param) == OrDefault(ParseInt(param), 100)

\* values of the `limit` query parameter: absent, empty, not a number, zero,
\* negative, small, a number followed by text, after a space, and large
LimitParams ==
    { None, Some(<<>>), Some(<<"a", "b", "c">>), Some(<<"0">>),
      Some(<<"-", "5">>), Some(<<"5">>), Some(<<"1", "2", "p", "x">>),
      Some(<<" ", "7">>), Some(<<"9", "9", "9", "9", "9", "9">>) }

Collections == {"sensor_data", "dublin_bikes"}

\* either GET handler up to the pending get() of getRecentSensorData(limit) or
\* getRecentBikesData(limit); when getFirestore throws, the function returns
\* failure at once and the handler answers 500
QueryRecent(collection, param) ==
    LET limit == LimitOf(param)
        failure == [success |-> FALSE, error |-> "initializeFirebase failed"]
    IN  /\ started
        /\ Len(tasks) <= MaxTasks
        /\ firebaseInitialized' = GetFirestoreOk
        /\ commits' = Append(commits, <<>>)
        /\ tasks' = Append(tasks,
              [kind |-> "query", trigger |-> collection, param |-> param,
               limit |-> limit, data |-> <<>>, i |-> 0, results |-> 0,
               pc |-> IF GetFirestoreOk THEN "get" ELSE "done",
               result |-> IF GetFirestoreOk THEN NoValue ELSE failure,
               resp |-> IF GetFirestoreOk THEN NoValue
                        ELSE [status |-> 500, body |-> failure]])
        /\ last' = NoValue
        /\ UNCHANGED <<sensorData, sessionId, keyFilePresent, JCDECAUX_API_KEY,
                       fetchCount, lastFetchTime, lastFetchStatus, started, now,
                       accepted, universe>>

\* the get() of a recency query settles: the function returns the documents
\* or, from its catch block, failure, and the handler answers 200 or 500
\* (which documents the store holds is left open)
ResolveQuery(t, ok) ==
    LET result == IF ok THEN [success |-> TRUE]
                  ELSE [success |-> FALSE, error |-> "get rejected"]
    IN  /\ tasks[t].kind = "query"
        /\ tasks[t].pc = "get"
        /\ tasks' = [tasks EXCEPT ![t].pc = "done", ![t].result = result,
                         ![t].resp = [status |-> IF ok THEN 200 ELSE 500,
                                      body |-> result]]
        /\ last' = NoValue
        /\ UNCHANGED <<sensorData, sessionId, firebaseInitialized, keyFilePresent,
                       JCDECAUX_API_KEY, fetchCount, lastFetchTime,
                       lastFetchStatus, started, now, commits, accepted, universe>>

(***************************************************************************)
(* The adapter functions called directly (firebaseConfig.js exports them). *)
(***************************************************************************)
\* return values of addSensorData; docRef.id is the name the store gives the
\* new document, here the number of the write
AddSuccess(docId) == [success |-> TRUE, docId |-> docId]
AddFailure(message) == [success |-> FALSE, error |-> message]

\* an addSensorData whose getFirestore() stands outside the try block
AddCallThrows(dataPoint) ==
    IF GetFirestoreOk
    THEN [pc |-> "add", result |-> NoValue,
          issued |-> <<Commit("sensor_data", <<SensorDoc(dataPoint)>>)>>]
    ELSE [pc |-> "done", result |-> [thrown |-> "initializeFirebase failed"],
          issued |-> <<>>]

\* addSensorData from its call to its pending add() or, when the store
\* cannot be initialised, to the return of its catch block
AddCall(dataPoint) ==
    IF GetFirestoreOk
    THEN [pc |-> "add", result |-> NoValue,
          issued |-> <<Commit("sensor_data", <<SensorDoc(dataPoint)>>)>>]
    ELSE [pc |-> "done", result |-> AddFailure("initializeFirebase failed"),
          issued |-> <<>>]

\* addSensorData(dataPoint)
AddSensorData(dataPoint) ==
    LET call == AddCall(dataPoint)
    IN  /\ started
        /\ Len(tasks) <= MaxTasks
        /\ firebaseInitialized' = GetFirestoreOk
        /\ commits' = Append(commits, call.issued)
        /\ tasks' = Append(tasks,
              [kind |-> "single", trigger |-> "call", pc |-> call.pc,
               data |-> <<dataPoint>>, i |-> 0, results |-> 0,
               result |-> call.result, resp |-> NoValue])
        /\ last' = NoValue
        /\ UNCHANGED <<sensorData, sessionId, keyFilePresent, JCDECAUX_API_KEY,
                       fetchCount, lastFetchTime, lastFetchStatus, started, now,
                       accepted, universe>>

\* the add() of addSensorData settles: the function returns the document id
\* or, from its catch block, failure
ResolveAdd(t, ok) ==
    /\ tasks[t].kind = "single"
    /\ tasks[t].pc = "add"
    /\ commits' = [commits EXCEPT ![t] = Settle(commits[t], ok)]
    /\ tasks' = [tasks EXCEPT ![t].pc = "done",
                              ![t].result = IF ok THEN AddSuccess(t)
                                            ELSE AddFailure("add rejected")]
    /\ last' = NoValue
    /\ UNCHANGED <<sensorData, sessionId, firebaseInitialized, keyFilePresent,
                   JCDECAUX_API_KEY, fetchCount, lastFetchTime, lastFetchStatus,
                   started, now, accepted, universe>>

\* return values of addDublinBikesData
BikesSuccess(stationsData, timestamp) ==
    [success |-> TRUE, stationsAdded |-> Len(stationsData), timestamp |-> timestamp]
BikesFailure(message) == [success |-> FALSE, error |-> message]

\* station lists as fetchDublinBikes hands them over
TransformedStations ==
    { [k \in 1..Len(b) |-> TransformStation(b[k])] :
        b \in {<<>>} \cup {c \in PollStations : ~TransformThrows(c)} }

\* addDublinBikesData(stationsData) from its call to its pending commit or,
\* when the store cannot be initialised, to the return of its catch block
AddDublinBikesData(stationsData) ==
    LET timestamp == ToISOString(now)
    IN  /\ started
        /\ Len(tasks) <= MaxTasks
        /\ firebaseInitialized' = GetFirestoreOk
        /\ commits' = Append(commits,
              IF GetFirestoreOk
              THEN <<Commit("dublin_bikes",
                            [k \in 1..Len(stationsData) |->
                                StationDoc(stationsData[k], timestamp)])>>
              ELSE <<>>)
        /\ tasks' = Append(tasks,
              [kind |-> "bikes", trigger |-> "call", timestamp |-> timestamp,
               pc |-> IF GetFirestoreOk THEN "commit" ELSE "done",
               data |-> stationsData, i |-> 0, results |-> 0,
               result |-> IF GetFirestoreOk THEN NoValue
                          ELSE BikesFailure("initializeFirebase failed"),
               resp |-> NoValue])
        /\ last' = NoValue
        /\ UNCHANGED <<sensorData, sessionId, keyFilePresent, JCDECAUX_API_KEY,
                       fetchCount, lastFetchTime, lastFetchStatus, started, now,
                       accepted, universe>>

\* the commit of addDublinBikesData settles
ResolveAddBikes(t, ok) ==
    /\ tasks[t].kind = "bikes"
    /\ tasks[t].pc = "commit"
    /\ commits' = [commits EXCEPT ![t] = Settle(commits[t], ok)]
    /\ tasks' = [tasks EXCEPT ![t].pc = "done",
                              ![t].result =
                                  IF ok THEN BikesSuccess(tasks[t].data,
                                                          tasks[t].timestamp)
                                  ELSE BikesFailure("commit rejected")]
    /\ last' = NoValue
    /\ UNCHANGED <<sensorData, sessionId, firebaseInitialized, keyFilePresent,
                   JCDECAUX_API_KEY, fetchCount, lastFetchTime, lastFetchStatus,
                   started, now, accepted, universe>>

(***************************************************************************)
(* Specifications.                                                         *)
(***************************************************************************)
\* the settling of network calls, common to both specifications
Resolve ==
    \/ \E t \in DOMAIN tasks, ok \in BOOLEAN : ResolveSensorCommit(t, ok)
    \/ \E t \in DOMAIN tasks, ok \in BOOLEAN : ResolveBikesCommit(t, ok)
    \/ \E t \in DOMAIN tasks, reply \in Replies : ResolveFetch(t, reply)
    \/ \E t \in DOMAIN tasks : ResolveJson(t)

Next ==
    \/ Startup
    \/ Tick
    \/ StartSession
    \/ \E data \in Bodies : PostData(data)
    \/ Count
    \/ Download
    \/ StopSession
    \/ GetStats
    \/ CronTick
    \/ ManualFetch
    \/ Resolve

Spec == Init /\ [][Next]_vars

\* the session path alone: no API key is configured, so the poller's only
\* episode (at startup) returns at once, and no poll is triggered later
InitSession == InitIn("small") /\ JCDECAUX_API_KEY = None

NextSession ==
    \/ Startup
    \/ Tick
    \/ StartSession
    \/ \E data \in Bodies : PostData(data)
    \/ Count
    \/ Download
    \/ StopSession
    \/ \E t \in DOMAIN tasks, ok \in BOOLEAN : ResolveSensorCommit(t, ok)

SpecSession == InitSession /\ [][NextSession]_vars

\* the session path with the fairness the program itself provides: the top
\* level of server.js runs when the process starts. Requests, the clock and
\* the settling of Firestore calls belong to the environment and are not fair
SpecSessionFair == SpecSession /\ WF_vars(Startup)

\* the batch writer alone, on inputs around multiples of the chunk size
InitBulk == InitIn("bulk") /\ JCDECAUX_API_KEY = None

NextBulk ==
    \/ Startup
    \/ \E dataPoints \in BulkInputs : CallBatch(dataPoints)
    \/ \E t \in DOMAIN tasks, ok \in BOOLEAN : ResolveSensorCommit(t, ok)

SpecBulk == InitBulk /\ [][NextBulk]_vars

\* the recency queries alone
InitQuery == InitIn("small") /\ JCDECAUX_API_KEY = None

NextQuery ==
    \/ Startup
    \/ \E collection \in Collections, param \in LimitParams :
          QueryRecent(collection, param)
    \/ \E t \in DOMAIN tasks, ok \in BOOLEAN : ResolveQuery(t, ok)

SpecQuery == InitQuery /\ [][NextQuery]_vars

\* the poller alone, at one instant of the clock
InitPoller == InitIn("poll")

NextPoller ==
    \/ Startup
    \/ CronTick
    \/ ManualFetch
    \/ GetStats
    \/ \E t \in DOMAIN tasks, ok \in BOOLEAN : ResolveBikesCommit(t, ok)
    \/ \E t \in DOMAIN tasks, reply \in Replies : ResolveFetch(t, reply)
    \/ \E t \in DOMAIN tasks : ResolveJson(t)

SpecPoller == InitPoller /\ [][NextPoller]_vars

\* the station path on station lists around the chunk size
InitStations == InitIn("bulk") /\ JCDECAUX_API_KEY # None

NextStations ==
    \/ Startup
    \/ CronTick
    \/ \E t \in DOMAIN tasks, ok \in BOOLEAN : ResolveBikesCommit(t, ok)
    \/ \E t \in DOMAIN tasks, reply \in Replies : ResolveFetch(t, reply)
    \/ \E t \in DOMAIN tasks : ResolveJson(t)

SpecStations == InitStations /\ [][NextStations]_vars

\* the poller and the session path together, at one instant of the clock,
\* with a store that can be initialised: the upstream answers a one-station
\* list and the sink accepts, or the call stays pending
JointBodies == {Array(<<PointB>>), NonArray("null")}
JointReplies == {reply \in Replies : reply.kind = "array" /\ Len(reply.body) = 1}

InitJoint == InitIn("poll") /\ JCDECAUX_API_KEY # None /\ keyFilePresent

NextJoint ==
    \/ Startup
    \/ StartSession
    \/ \E data \in JointBodies : PostData(data)
    \/ Count
    \/ Download
    \/ StopSession
    \/ GetStats
    \/ CronTick
    \/ ManualFetch
    \/ \E t \in DOMAIN tasks : ResolveSensorCommit(t, TRUE)
    \/ \E t \in DOMAIN tasks : ResolveBikesCommit(t, TRUE)
    \/ \E t \in DOMAIN tasks, reply \in JointReplies : ResolveFetch(t, reply)
    \/ \E t \in DOMAIN tasks : ResolveJson(t)

SpecJoint == InitJoint /\ [][NextJoint]_vars

\* the five adapter functions, each called on its own
AdapterBatches == {<<>>, <<PointA, PointB>>}
AdapterLimits == {None, Some(<<"5">>)}

InitAdapter == InitIn("poll") /\ JCDECAUX_API_KEY = None

NextAdapter ==
    \/ Startup
    \/ AddSensorData(PointA)
    \/ \E dataPoints \in AdapterBatches : CallBatch(dataPoints)
    \/ \E stationsData \in TransformedStations : AddDublinBikesData(stationsData)
    \/ \E collection \in Collections, param \in AdapterLimits :
          QueryRecent(collection, param)
    \/ \E t \in DOMAIN tasks, ok \in BOOLEAN : ResolveAdd(t, ok)
    \/ \E t \in DOMAIN tasks, ok \in BOOLEAN : ResolveSensorCommit(t, ok)
    \/ \E t \in DOMAIN tasks, ok \in BOOLEAN : ResolveAddBikes(t, ok)
    \/ \E t \in DOMAIN tasks, ok \in BOOLEAN : ResolveQuery(t, ok)

SpecAdapter == InitAdapter /\ [][NextAdapter]_vars

\* the poller's statistics under a moving clock: scheduled episodes whose
\* upstream call answers 503 or a one-station list
StatsReplies ==
    {reply \in Replies :
        reply.kind = "status" \/ (reply.kind = "array" /\ Len(reply.body) = 1)}

InitStats == InitIn("poll") /\ JCDECAUX_API_KEY # None /\ keyFilePresent

NextStats ==
    \/ Startup
    \/ Tick
    \/ CronTick
    \/ \E t \in DOMAIN tasks, ok \in BOOLEAN : ResolveBikesCommit(t, ok)
    \/ \E t \in DOMAIN tasks, reply \in StatsReplies : ResolveFetch(t, reply)
    \/ \E t \in DOMAIN tasks : ResolveJson(t)

SpecStats == InitStats /\ [][NextStats]_vars

(***************************************************************************)
(* Properties.                                                             *)
(***************************************************************************)
\* the latest step was the synchronous handler `op` sending a response
LastIs(op) == "op" \in DOMAIN last /\ last.op = op

RECURSIVE Flatten(_)
Flatten(arrays) ==
    IF arrays = <<>> THEN <<>>
    ELSE Flatten(SubSeq(arrays, 1, Len(arrays) - 1)) \o arrays[Len(arrays)]

RECURSIVE SumLen(_)
SumLen(arrays) ==
    IF arrays = <<>> THEN 0
    ELSE SumLen(SubSeq(arrays, 1, Len(arrays) - 1)) + Len(arrays[Len(arrays)])

\* C1: the buffer is the concatenation, in received order, of the arrays
\* accepted since the most recent start (or since process start), and count()
\* answers the sum of their lengths.
C1_CountIsCumulative ==
    /\ sensorData = Flatten(accepted)
    /\ Len(sensorData) = SumLen(accepted)
    /\ LastIs("count") => last.body.count = SumLen(accepted)

\* count() answers for a session that accepted two non-empty arrays
C1_Witness ==
    /\ LastIs("count")
    /\ sessionId # None
    /\ Len(accepted) >= 2
    /\ \A k \in 1..Len(accepted) : accepted[k] # <<>>
    /\ last.body.count = 3

\* C2: in the state right after any startSession the buffer is empty, so
\* count() is 0, whatever the previous session held.
C2_StartDiscardsBuffer ==
    LastIs("start") => /\ Len(sensorData) = 0
                       /\ last.body.sessionId = sessionId

\* a start right after a state whose buffer held records
C2_Witness ==
    /\ LastIs("start")
    /\ Len(last.before.sensorData) >= 2
    /\ last.before.sessionId # None

\* C3: POST /api/data whose data is absent, null or not an array answers 400
\* and changes neither the buffer nor the session id, starts no batch write
\* and issues no commit.
C3_InvalidDataRejected ==
    [][\A data \in InvalidBodies :
          PostData(data) =>
              /\ LastIs("data")'
              /\ last'.status = 400
              /\ UNCHANGED <<sensorData, sessionId, tasks, commits, accepted>>]_vars

\* a 400 sent while the session holds records
C3_Witness ==
    /\ LastIs("data")
    /\ last.status = 400
    /\ sessionId # None
    /\ Len(sensorData) > 0

\* C4: the export answers 404 exactly when the buffer is empty; otherwise it
\* answers the 13-column header line and one line per buffered record.
C4_ExportEmptyOrAllRows ==
    LastIs("download") =>
        /\ last.status \in {200, 404}
        /\ last.status = 404 <=> Len(sensorData) = 0
        /\ last.status = 200 =>
              /\ Len(last.body.csv) = 1 + Len(sensorData)
              /\ last.body.csv[1] = headers
              /\ Len(headers) = 13
              /\ \A k \in 1..Len(last.body.csv) : Len(last.body.csv[k]) = 13

\* an export of three records
C4_Witness ==
    /\ LastIs("download")
    /\ last.status = 200
    /\ Len(sensorData) = 3

\* the place of record i of `buffer` in a stable ascending sort by timestamp
StableRank(buffer, i) ==
    1 + Cardinality({j \in 1..Len(buffer) :
                        \/ buffer[j].timestamp < buffer[i].timestamp
                        \/ buffer[j].timestamp = buffer[i].timestamp /\ j < i})

MinTimestamp(buffer) ==
    CHOOSE m \in {buffer[i].timestamp : i \in 1..Len(buffer)} :
        \A i \in 1..Len(buffer) : m <= buffer[i].timestamp

\* C5: the rows of an export are the buffer's records in stable ascending
\* timestamp order, each with seconds_elapsed = its timestamp minus the
\* least timestamp of the buffer, to three decimals; the first row has 0.000.
C5_ExportSortedStable ==
    (LastIs("download") /\ last.status = 200) =>
        LET buffer == sensorData
            rows == Tail(last.body.csv)
        IN  /\ \A i \in 1..Len(buffer) :
                  LET row == rows[StableRank(buffer, i)]
                      d == buffer[i].timestamp - MinTimestamp(buffer)
                  IN  /\ row[1] = buffer[i].timestamp
                      /\ row[4] = OrEmpty(buffer[i].latitude)
                      /\ row[3] = [negative |-> FALSE, whole |-> d \div 1000,
                                   decimals |-> d % 1000]
            /\ \A k \in 1..(Len(rows) - 1) : rows[k][1] <= rows[k + 1][1]
            /\ rows[1][3] = [negative |-> FALSE, whole |-> 0, decimals |-> 0]

\* an export of a buffer that is out of order and holds two different records
\* with the same timestamp
C5_Witness ==
    /\ LastIs("download")
    /\ last.status = 200
    /\ \E i, j \in 1..Len(sensorData) :
          i < j /\ sensorData[i].timestamp > sensorData[j].timestamp
    /\ \E i, j \in 1..Len(sensorData) :
          /\ i < j
          /\ sensorData[i].timestamp = sensorData[j].timestamp
          /\ sensorData[i] # sensorData[j]

\* the activations of addSensorDataBatch
BatchTasks == {t \in DOMAIN tasks : tasks[t].kind \in {"batch", "data"}}

\* the commits that task t issued, in the order it issued them
CommitsOf(t) == commits[t]

\* the documents of a sequence of commits, in order
RECURSIVE DocsOf(_)
DocsOf(cs) ==
    IF cs = <<>> THEN <<>>
    ELSE DocsOf(SubSeq(cs, 1, Len(cs) - 1)) \o cs[Len(cs)].docs

\* the documents of the first n records of `dataPoints`
FirstDocs(dataPoints, n) == [k \in 1..n |-> SensorDoc(dataPoints[k])]

\* ceil(n / 500)
ChunksFor(n) == (n + BATCH_SIZE - 1) \div BATCH_SIZE

\* the store was available to the call and the sink rejected none of its chunks
NoSinkFailure(t) ==
    /\ firebaseInitialized
    /\ \A k \in 1..Len(CommitsOf(t)) : CommitsOf(t)[k].status # "rejected"

C7_ReportsCommittedChunks ==
    \A t \in BatchTasks :
        \A k \in 1..Len(CommitsOf(t)) :
            (tasks[t].pc = "done" /\ CommitsOf(t)[k].status = "rejected") =>
                /\ tasks[t].result.success = FALSE
                /\ "committedChunks" \in DOMAIN tasks[t].result
                /\ tasks[t].result.committedChunks = k - 1

\* C8: when the sink rejects chunk k of a call, the call has returned failure
\* without issuing a later chunk, chunks 1..k-1 stay committed, and the sink
\* holds of that call exactly the first (k-1) * 500 records.
C8_StopsAtRejectedChunk ==
    \A t \in BatchTasks :
        LET mine == CommitsOf(t)
            Stored(c) == c.status = "committed"
        IN  \A k \in 1..Len(mine) :
                mine[k].status = "rejected" =>
                    /\ k = Len(mine)
                    /\ tasks[t].pc = "done"
                    /\ tasks[t].result.success = FALSE
                    /\ \A j \in 1..(k - 1) : mine[j].status = "committed"
                    /\ DocsOf(SelectSeq(mine, Stored)) =
                          FirstDocs(tasks[t].data, (k - 1) * BATCH_SIZE)

\* the second chunk of a longer call rejected: one chunk stored, no later
\* chunk issued
C8_Witness ==
    \E t \in BatchTasks :
        /\ Len(tasks[t].data) = MaxFullChunks * BATCH_SIZE + 1
        /\ Len(CommitsOf(t)) = 2
        /\ CommitsOf(t)[1].status = "committed"
        /\ CommitsOf(t)[2].status = "rejected"
        /\ tasks[t].pc = "done"

\* C9: every commit handed to the sink, for sensor data and for stations,
\* holds at most 500 documents.
C9_EveryCommitWithinLimit ==
    \A t \in DOMAIN tasks :
        \A k \in 1..Len(commits[t]) : Len(commits[t][k].docs) <= BATCH_SIZE

\* C10: storedToCloud of a POST /api/data response is true exactly when the
\* batch write of that request succeeded.
C10_StoredToCloudIsOutcome ==
    \A t \in DOMAIN tasks :
        (tasks[t].kind = "data" /\ tasks[t].pc = "done") =>
            tasks[t].resp.body.storedToCloud = tasks[t].result.success

\* task t is a POST /api/data whose batch write returned failure
FailedData(task) ==
    task.kind = "data" /\ task.pc = "done" /\ ~task.result.success

\* C11: when the batch write of a POST /api/data fails (the store cannot be
\* initialised, or a commit is rejected), the step that ends the request
\* leaves the pushed records in the buffer and answers 200 with
\* success = true and the buffer's length.
C11_SinkFailureIsolated ==
    [][\A t \in DOMAIN tasks' :
          LET new == t \notin DOMAIN tasks
              task == tasks'[t]
          IN  (FailedData(task) /\ (new \/ tasks[t].pc # "done")) =>
                  /\ task.resp.status = 200
                  /\ task.resp.body.success
                  /\ task.resp.body.totalPoints = Len(sensorData')
                  /\ sensorData' = IF new THEN sensorData \o task.data ELSE sensorData
                  /\ sessionId' = sessionId]_vars

\* a request of one record or more whose commit was rejected, answered with
\* success, and a later count that includes its records
C11_Witness ==
    /\ LastIs("count")
    /\ last.body.count = Len(sensorData)
    /\ \E t \in DOMAIN tasks :
          /\ FailedData(tasks[t])
          /\ Len(tasks[t].data) > 0
          /\ Len(commits[t]) = 1
          /\ commits[t][1].status = "rejected"
          /\ tasks[t].resp.body.success
          /\ Len(sensorData) >= Len(tasks[t].data)

\* C12: every accepted POST /api/data eventually sends its response, also
\* when the commit it awaits never settles.
C12_AppendEventuallyResponds ==
    \A t \in 1..(MaxTasks + 1) :
        (t \in DOMAIN tasks /\ tasks[t].kind = "data")
            ~> (t \in DOMAIN tasks /\ tasks[t].resp # NoValue)

\* the activations of fetchDublinBikes
PollTasks == {t \in DOMAIN tasks : tasks[t].kind = "poll"}

\* C13: with no API key, every episode (initial, cron, manual) has returned
\* {success: false, error: 'Missing API key'} without a fetch and without a
\* commit, lastFetchStatus is 'Error: Missing API key', and fetchCount and
\* lastFetchTime keep their initial values.
C13_MissingKeyEveryEpisode ==
    JCDECAUX_API_KEY = None =>
        /\ \A t \in PollTasks :
              /\ tasks[t].pc = "done"
              /\ tasks[t].result = [success |-> FALSE, error |-> "Missing API key"]
              /\ commits[t] = <<>>
        /\ started => lastFetchStatus = StatusError("Missing API key")
        /\ fetchCount = 0
        /\ lastFetchTime = None

\* three episodes without a key: the initial one, a scheduled and a manual one
C13_Witness ==
    /\ JCDECAUX_API_KEY = None
    /\ \A trigger \in {"initial", "cron", "manual"} :
          \E t \in PollTasks : tasks[t].trigger = trigger /\ tasks[t].pc = "done"
    /\ lastFetchStatus = StatusError("Missing API key")

\* the upstream answers with a status outside 200..299
Non2xx == {reply \in Replies : reply.kind = "status"}

\* C14: when fetch(url) resolves with a non-2xx response, the episode returns
\* failure in that step, lastFetchStatus becomes an error text, fetchCount and
\* lastFetchTime are unchanged, and the episode has issued and issues no commit.
C14_Non2xxFails ==
    [][\A t \in DOMAIN tasks : \A reply \in Non2xx :
          ResolveFetch(t, reply) =>
              /\ tasks'[t].pc = "done"
              /\ tasks'[t].result.success = FALSE
              /\ lastFetchStatus'.kind = "Error"
              /\ lastFetchStatus'.detail = tasks'[t].result.error
              /\ fetchCount' = fetchCount
              /\ lastFetchTime' = lastFetchTime
              /\ commits' = commits
              /\ commits[t] = <<>>]_vars

\* an episode answered with 503 after an earlier episode had succeeded
C14_Witness ==
    /\ fetchCount = 1
    /\ lastFetchStatus = StatusError("API returned status")
    /\ \E t \in PollTasks :
          /\ tasks[t].pc = "done"
          /\ tasks[t].result = [success |-> FALSE, error |-> "API returned status"]
          /\ commits[t] = <<>>

\* the episodes that have returned success
Succeeded == {t \in PollTasks : tasks[t].pc = "done" /\ tasks[t].result.success}

\* the episodes whose commit the sink has accepted
Committed ==
    {t \in PollTasks : Len(commits[t]) = 1 /\ commits[t][1].status = "committed"}

\* C15: fetchCount is the number of episodes that have completed with a
\* committed write, also when episodes overlap; an episode that failed at any
\* step is not counted.
C15_FetchCountIsSuccesses ==
    /\ fetchCount = Cardinality(Succeeded)
    /\ Succeeded = Committed
    /\ \A t \in Succeeded : tasks[t].result.fetchCount \in 1..fetchCount

\* a manual and a scheduled episode overlap: the one started later has
\* succeeded while the earlier one still awaits its commit, and a third has failed
C15_Witness ==
    /\ fetchCount = 1
    /\ \E t, u, v \in PollTasks :
          /\ t < u
          /\ tasks[t].pc = "commit"
          /\ u \in Succeeded
          /\ tasks[t].trigger # tasks[u].trigger
          /\ tasks[v].pc = "done"
          /\ ~tasks[v].result.success

\* the step appends exactly one episode, started by `trigger`
StartsOneEpisode(trigger) ==
    /\ Len(tasks') = Len(tasks) + 1
    /\ SubSeq(tasks', 1, Len(tasks)) = tasks
    /\ tasks'[Len(tasks')].kind = "poll"
    /\ tasks'[Len(tasks')].trigger = trigger

\* C16: the start of the poller launches exactly one episode at once; a
\* scheduler tick can always fire, whatever the earlier episodes did and
\* whether or not they have finished, and launches exactly one episode; every
\* episode that ends has returned a result object (none has thrown).
C16_EveryTickStartsEpisode ==
    /\ []((started /\ Len(tasks) <= MaxTasks) => ENABLED CronTick)
    /\ [](\A t \in PollTasks :
             tasks[t].pc = "done" => tasks[t].result.success \in BOOLEAN)
    /\ [][(~started /\ started') => (tasks = <<>> /\ StartsOneEpisode("initial"))]_vars
    /\ [][CronTick => StartsOneEpisode("cron")]_vars

\* a scheduled episode launched after one episode failed and while another
\* was still in progress
C16_Witness ==
    \E t, u, v \in PollTasks :
        /\ t < v /\ u < v
        /\ tasks[t].pc = "done" /\ ~tasks[t].result.success
        /\ tasks[u].pc \in {"fetch", "json", "commit"}
        /\ tasks[v].trigger = "cron"

\* the buffer and the session id are what the latest handler found
SameBufferAndSession ==
    /\ sensorData = last.before.sensorData
    /\ sessionId = last.before.sessionId

C18_ExportKeepsBuffer ==
    LastIs("download") => SameBufferAndSession

\* an export of a buffer that is not in timestamp order, still not in order
C18_Witness ==
    /\ LastIs("download")
    /\ last.status = 200
    /\ sensorData # Sorted(sensorData)

\* C19: the id a POST /api/session/start returns differs from the id of the
\* session it replaces, also when both starts fall in the same millisecond.
C19_SessionIdsDiffer ==
    LastIs("start") => last.body.sessionId # last.before.sessionId

\* the activations of the recency queries
QueryTasks == {t \in DOMAIN tasks : tasks[t].kind = "query"}

\* C20: the limit handed to getRecentSensorData / getRecentBikesData is an
\* integer of at least 1 for every value of the query parameter, and 100
\* when the parameter is absent. (The claim also asks for a fixed upper
\* bound, which it does not name; the lower bound alone is stated here.)
C20_LimitBoundedPositive ==
    \A t \in QueryTasks :
        /\ tasks[t].limit \in Int
        /\ tasks[t].limit >= 1
        /\ tasks[t].param = None => tasks[t].limit = 100

\* C21: within one call of addSensorDataBatch the chunks go to the sink in
\* chunk order (the k-th commit runs from record (k-1)*500+1 to the end of
\* its slice) and one at a time: chunk N+1 is submitted only after the commit
\* of chunk N has resolved, so a call never has two commits in flight.
C21_ChunksOneAtATime ==
    \A t \in BatchTasks :
        LET mine == CommitsOf(t)
            n == Len(tasks[t].data)
        IN  /\ \A k \in 1..Len(mine) :
                  LET from == (k - 1) * BATCH_SIZE
                      size == Min(BATCH_SIZE, n - from)
                  IN  /\ Len(mine[k].docs) = size
                      /\ mine[k].docs[1] = SensorDoc(tasks[t].data[from + 1])
                      /\ mine[k].docs[size] = SensorDoc(tasks[t].data[from + size])
            /\ \A k \in 1..Len(mine) :
                  /\ mine[k].status = "pending" =>
                        k = Len(mine) /\ tasks[t].pc = "commit"
                  /\ k < Len(mine) => mine[k].status = "committed"
            /\ tasks[t].pc = "commit" =>
                  /\ mine # <<>>
                  /\ mine[Len(mine)].status = "pending"
                  /\ tasks[t].i = (Len(mine) - 1) * BATCH_SIZE
                  /\ tasks[t].results = Len(mine) - 1

\* a call on more than two full chunks awaits its third commit, the first two
\* having resolved
C21_Witness ==
    \E t \in BatchTasks :
        /\ Len(tasks[t].data) = MaxFullChunks * BATCH_SIZE + 1
        /\ tasks[t].pc = "commit"
        /\ Len(CommitsOf(t)) = 3
        /\ CommitsOf(t)[1].status = "committed"
        /\ CommitsOf(t)[2].status = "committed"
        /\ CommitsOf(t)[3].status = "pending"

\* the episodes that are suspended on an upstream or a sink call
InProgress == {t \in PollTasks : tasks[t].pc \in {"fetch", "json", "commit"}}

\* C22: poll episodes are not serialised: while another episode is in
\* progress a manual trigger and a scheduler tick can still fire, so several
\* episodes are in progress together; and the caller of triggerManualFetch
\* has its response exactly when its own episode has completed, built from
\* that episode's result.
C22_EpisodesOverlap ==
    /\ (started /\ Len(tasks) <= MaxTasks /\ InProgress # {}) =>
          (ENABLED ManualFetch /\ ENABLED CronTick)
    /\ \A t \in PollTasks :
          /\ tasks[t].resp # NoValue <=>
                (tasks[t].trigger = "manual" /\ tasks[t].pc = "done")
          /\ tasks[t].resp # NoValue =>
                /\ tasks[t].resp.body.success = tasks[t].result.success
                /\ tasks[t].resp.status = IF tasks[t].result.success THEN 200 ELSE 500

\* a manual episode started while the initial one was fetching has completed
\* and answered its caller; the initial one and a later scheduled one are
\* both still in progress
C22_Witness ==
    \E t, u, v \in PollTasks :
        /\ t < u /\ u < v
        /\ t \in InProgress /\ v \in InProgress
        /\ tasks[u].trigger = "manual"
        /\ tasks[u].pc = "done"
        /\ tasks[u].resp # NoValue
        /\ tasks[v].trigger = "cron"

\* the POST /api/data requests that are suspended on their sink commit
SuspendedAppends ==
    {t \in DOMAIN tasks : tasks[t].kind = "data" /\ tasks[t].pc = "commit"}

\* C23: the poller and the session path never block each other. Whatever
\* episodes and appends are suspended, the synchronous handlers (start, count,
\* export, stop, stats) can run and answer in their own step, a new append is
\* taken in, a new episode can start, and every suspended append or episode
\* goes on as soon as its own call settles, an append with its response.
C23_PathsNeverBlock ==
    /\ started =>
          /\ ENABLED (StartSession /\ LastIs("start")')
          /\ ENABLED (Count /\ LastIs("count")')
          /\ ENABLED (Download /\ LastIs("download")')
          /\ ENABLED (StopSession /\ LastIs("stop")')
          /\ ENABLED (GetStats /\ LastIs("stats")')
    /\ (started /\ Len(tasks) <= MaxTasks) =>
          /\ \A data \in JointBodies : ENABLED PostData(data)
          /\ ENABLED CronTick
          /\ ENABLED ManualFetch
    /\ \A t \in SuspendedAppends :
          ENABLED (ResolveSensorCommit(t, TRUE) /\ tasks'[t].resp # NoValue)
    /\ \A t \in InProgress :
          /\ tasks[t].pc = "fetch" =>
                \A reply \in JointReplies : ENABLED ResolveFetch(t, reply)
          /\ tasks[t].pc = "json" => ENABLED ResolveJson(t)
          /\ tasks[t].pc = "commit" =>
                ENABLED (ResolveBikesCommit(t, TRUE) /\ tasks'[t].pc = "done")

\* the initial episode never got its upstream answer; an append taken in
\* after it is suspended on its commit, and an episode started after that
\* append has completed with a committed write
C23_Witness ==
    \E t, u, v \in DOMAIN tasks :
        /\ t < u /\ u < v
        /\ tasks[t].kind = "poll" /\ tasks[t].pc = "fetch"
        /\ u \in SuspendedAppends
        /\ v \in Succeeded

\* the activations of the adapter functions
AdapterTasks ==
    {t \in DOMAIN tasks : tasks[t].kind \in {"single", "batch", "bikes", "query"}}

\* the sink failed the call of task t: the store could not be initialised,
\* or the sink rejected a write of the call
SinkFailed(t) ==
    \/ \E k \in 1..Len(commits[t]) : commits[t][k].status = "rejected"
    \/ ~firebaseInitialized

\* C24: an adapter call never ends in a raised error: whenever it has ended
\* it has returned an object with a boolean `success`; every sink failure,
\* the failure to initialise the store included, is returned as
\* {success: false, error}, and a successful addSensorData returns
\* {success: true, docId}.
C24_AdaptersReturnValues ==
    \A t \in AdapterTasks :
        tasks[t].pc = "done" =>
            LET result == tasks[t].result
            IN  /\ "success" \in DOMAIN result
                /\ result.success \in BOOLEAN
                /\ ~result.success => DOMAIN result = {"success", "error"}
                /\ SinkFailed(t) => ~result.success
                /\ (tasks[t].kind = "single" /\ result.success) =>
                      /\ DOMAIN result = {"success", "docId"}
                      /\ commits[t][1].status = "committed"

\* one addSensorData has returned its document id, and an addDublinBikesData
\* whose commit the sink rejected has returned failure
C24_Witness ==
    \E t, u \in AdapterTasks :
        /\ tasks[t].kind = "single" /\ tasks[t].pc = "done"
        /\ tasks[t].result = AddSuccess(t)
        /\ tasks[u].kind = "bikes" /\ tasks[u].pc = "done"
        /\ tasks[u].result = BikesFailure("commit rejected")

\* the step takes in one POST /api/data request and appends its records
ReceivesAppend ==
    /\ Len(tasks') = Len(tasks) + 1
    /\ tasks'[Len(tasks')].kind = "data"
    /\ sensorData' = sensorData \o tasks'[Len(tasks')].data
    /\ accepted' = Append(accepted, tasks'[Len(tasks')].data)

\* C25: under any interleaving of starts with appends in flight, the buffer
\* holds exactly the records of the requests received since the latest
\* start: records enter the buffer only in the step that receives their
\* request, a start empties it, and a request that resumes after its write,
\* before or after a start, adds nothing.
C25_BufferHoldsRequestsSinceStart ==
    /\ [](sensorData = Flatten(accepted))
    /\ [][sensorData' # sensorData =>
             \/ ReceivesAppend
             \/ (LastIs("start")' /\ sensorData' = <<>> /\ accepted' = <<>>)]_vars
    /\ [][\A t \in DOMAIN tasks : \A ok \in BOOLEAN :
             ResolveSensorCommit(t, ok) =>
                 (sensorData' = sensorData /\ accepted' = accepted)]_vars

\* a request with two records was received, a start followed while its write
\* was pending, and it resumed after the start: it was answered from the empty
\* buffer of the new session, which holds none of its records
C25_Witness ==
    /\ sessionId # None
    /\ sensorData = <<>>
    /\ \E t \in DOMAIN tasks :
          /\ tasks[t].kind = "data"
          /\ Len(tasks[t].data) = 2
          /\ tasks[t].pc = "done"
          /\ Len(commits[t]) = 1
          /\ tasks[t].resp.body.totalPoints = 0

\* the step produces the response of the POST /api/data request t
Responds(t) ==
    /\ t \in DOMAIN tasks'
    /\ tasks'[t].kind = "data"
    /\ tasks'[t].resp # NoValue
    /\ t \in DOMAIN tasks => tasks[t].resp = NoValue

\* C26: the totalPoints of an append response is the length of the buffer in
\* the step that produces the response, after the sink forwarding has
\* resolved; whenever the request's array is still among those accepted since
\* the latest start, as it is in every run without an interleaved start, it
\* is at least the number of records the request brought.
C26_TotalPointsAtResponse ==
    [][\A t \in 1..(MaxTasks + 1) :
          Responds(t) =>
              LET body == tasks'[t].resp.body
              IN  /\ body.totalPoints = Len(sensorData')
                  /\ body.received = Len(tasks'[t].data)
                  /\ (\E k \in DOMAIN accepted' : accepted'[k] = tasks'[t].data) =>
                        body.totalPoints >= body.received]_vars

\* two different arrays were accepted in one session, and the request that
\* brought the first was answered after the second had arrived: its
\* totalPoints counts both, more than the buffer held after its own append
C26_Witness ==
    \E t, u \in DOMAIN tasks :
        /\ t < u
        /\ tasks[t].kind = "data" /\ tasks[u].kind = "data"
        /\ tasks[t].data # tasks[u].data
        /\ tasks[t].data # <<>> /\ tasks[u].data # <<>>
        /\ accepted = <<tasks[t].data, tasks[u].data>>
        /\ tasks[t].pc = "done"
        /\ Len(commits[t]) = 1
        /\ tasks[t].resp.body.totalPoints = Len(tasks[t].data) + Len(tasks[u].data)

\* the step ends the episode t with a failure
Fails(t) ==
    /\ t \in DOMAIN tasks'
    /\ tasks'[t].kind = "poll"
    /\ tasks'[t].pc = "done"
    /\ ~tasks'[t].result.success
    /\ t \in DOMAIN tasks => tasks[t].pc # "done"

\* C27: lastFetchTime is null exactly when fetchCount is 0; lastFetchTime is
\* written only in a step that increments fetchCount, and every such step
\* writes it with the time of that step; an episode that fails changes, of
\* the three statistics, lastFetchStatus only.
C27_TimeFollowsCount ==
    /\ [](lastFetchTime = None <=> fetchCount = 0)
    /\ [][lastFetchTime' # lastFetchTime => fetchCount' = fetchCount + 1]_vars
    /\ [][fetchCount' # fetchCount =>
             /\ fetchCount' = fetchCount + 1
             /\ lastFetchTime' = Some(ToISOString(now))
             /\ lastFetchStatus'.kind = "Success"]_vars
    /\ [][\A t \in 1..(MaxTasks + 1) :
             Fails(t) =>
                 /\ fetchCount' = fetchCount
                 /\ lastFetchTime' = lastFetchTime
                 /\ lastFetchStatus'.kind = "Error"
                 /\ lastFetchStatus'.detail = tasks'[t].result.error]_vars

\* one episode was counted at time 0; a later one, whose write was issued
\* after the clock had moved, was rejected: the count and the time of the
\* success stand, and the status tells the failure
C27_Witness ==
    /\ fetchCount = 1
    /\ lastFetchTime = Some(ToISOString(0))
    /\ lastFetchStatus = StatusError("commit rejected")
    /\ \E t, u \in PollTasks :
          /\ t \in Succeeded
          /\ tasks[u].pc = "done"
          /\ Len(commits[u]) = 1
          /\ commits[u][1].status = "rejected"
          /\ commits[u][1].docs[1].fetched_at = ToISOString(1)

====
